---- MODULE Spec2Model ----
(***************************************************************************)
(* Model of backend/scripts/toggle_logs.py: a script that comments out     *)
(* (--disable), restores from backups (--enable) and tallies (--status)    *)
(* the Logger calls of a fixed list of agent files.                        *)
(*                                                                         *)
(* A file's bytes are a sequence of tokens.  A token stands for a piece of *)
(* text the script's regular expressions tell apart: a recognised call     *)
(* prefix such as "Logger.info(", a blank " ", a slash "/", ")" and ";",   *)
(* the line ends "\n" and "\r", and "x" for any other character.           *)
(***************************************************************************)
EXTENDS Integers, Sequences, FiniteSets, TLC

\* disk: the files and backups with their bytes; pc, args, out: where the
\* script is, the flags of the latest run and what it printed; hist: the
\* latest --enable and --disable runs; original: the file system before the
\* first run
VARIABLES disk, pc, args, out, hist, original

vars == <<disk, pc, args, out, hist, original>>

----------------------------------------------------------------------------
(* Bounds of the model *)

\* number of tracked files modelled (AGENT_FILES lists five)
NumFiles == 3

\* every token string of at most this length that holds a Logger call is an
\* initial content
MaxTokens == 3

\* initial contents are also built from at most this many sample lines
MaxLines == 2

----------------------------------------------------------------------------
(* Paths and the file system *)

AGENT_FILES == 1 .. NumFiles

BACKUP_SUFFIX == ".backup"

\* get_file_paths(): the tracked files, in list order
FilePath(i) == <<i, "">>

\* Path(str(file_path) + BACKUP_SUFFIX)
BackupPath(i) == <<i, BACKUP_SUFFIX>>

\* path.exists() on file system d
Exists(d, p) == p \in DOMAIN d

RECURSIVE UniversalNewlines(_)
\* text mode decoding: "\r\n" and a lone "\r" both read as "\n"
UniversalNewlines(b) ==
    IF b = <<>> THEN <<>>
    ELSE IF Head(b) = "\r"
         THEN IF Len(b) >= 2 /\ b[2] = "\n"
              THEN <<"\n">> \o UniversalNewlines(Tail(Tail(b)))
              ELSE <<"\n">> \o UniversalNewlines(Tail(b))
         ELSE <<Head(b)>> \o UniversalNewlines(Tail(b))

\* a copy through text mode, which rewrites the line ends
CopyAsText(d, src, dst) ==
    [q \in DOMAIN d \cup {dst} |-> IF q = dst THEN UniversalNewlines(d[src]) ELSE d[q]]

\* shutil.copy2(src, dst): dst is created or overwritten with the bytes of src
Copy2(d, src, dst) == [q \in DOMAIN d \cup {dst} |-> IF q = dst THEN d[src] ELSE d[q]]

\* open(path, 'a').write(text): the text is put after what the file holds
WriteAppend(d, p, text) ==
    [q \in DOMAIN d \cup {p} |->
        IF q # p THEN d[q] ELSE IF Exists(d, p) THEN d[p] \o text ELSE text]

\* open(path, 'w').write(text): on POSIX "\n" is written as it is
WriteText(d, p, text) == [q \in DOMAIN d \cup {p} |-> IF q = p THEN text ELSE d[q]]

\* open(path, 'r').read()
ReadText(d, p) == UniversalNewlines(d[p])

----------------------------------------------------------------------------
(* The regular expressions *)

\* Logger\.(entry|exit|info|warn|error|debug)\(
LoggerCalls == {"Logger.entry(", "Logger.exit(", "Logger.info(",
                "Logger.warn(", "Logger.error(", "Logger.debug("}

\* \s : white space, which includes the newline
IsSpace(t) == t \in {" ", "\n"}

\* ^ without re.MULTILINE and without effect
AnyPosition(c, p) == p >= 1

\* ^ under re.MULTILINE: the start of the text or just after a newline
AtLineStart(c, p) == p = 1 \/ (p >= 2 /\ p <= Len(c) + 1 /\ c[p - 1] = "\n")

RECURSIVE SkipSpace(_, _)
\* \s* (greedy): the first position at or after p that holds no white space
SkipSpace(c, p) ==
    IF p <= Len(c) /\ IsSpace(c[p]) THEN SkipSpace(c, p + 1) ELSE p

RECURSIVE LineEnd(_, _)
\* the last position of the line that position p is on ('.' stops at "\n")
LineEnd(c, p) ==
    IF p + 1 <= Len(c) /\ c[p + 1] # "\n" THEN LineEnd(c, p + 1) ELSE p

IsCallAt(c, q) == q <= Len(c) /\ c[q] \in LoggerCalls

\* .+\);?$ after the call at q: at least one character, then ")" and an
\* optional ";" closing the line
ClosesLine(c, q) ==
    LET e == LineEnd(c, q)
        n == e - q
    IN  \/ n >= 2 /\ c[e] = ")"
        \/ n >= 3 /\ c[e] = ";" /\ c[e - 1] = ")"

\* the four compiled patterns; MatchEnd is the last position of the match of
\* pattern pat that starts at p, or 0 when there is none
MatchEnd(pat, c, p) ==
    LET q == SkipSpace(c, p)
    IN  CASE pat = "logger_pattern" ->
               IF AtLineStart(c, p) /\ IsCallAt(c, q) /\ ClosesLine(c, q)
               THEN LineEnd(c, q) ELSE 0
          [] pat = "count_pattern" ->
               IF IsCallAt(c, p) THEN p ELSE 0
          [] pat = "enabled_pattern" ->
               IF AtLineStart(c, p) /\ IsCallAt(c, q) THEN q ELSE 0
          [] pat = "disabled_pattern" ->
               IF /\ AtLineStart(c, p)
                  /\ q + 3 <= Len(c)
                  /\ c[q] = "/" /\ c[q + 1] = "/" /\ c[q + 2] = " "
                  /\ IsCallAt(c, q + 3)
               THEN q + 3 ELSE 0

RECURSIVE FindAllFrom(_, _, _)
FindAllFrom(pat, c, p) ==
    IF p > Len(c) THEN 0
    ELSE LET e == MatchEnd(pat, c, p)
         IN  IF e = 0 THEN FindAllFrom(pat, c, p + 1)
             ELSE 1 + FindAllFrom(pat, c, e + 1)

\* len(pattern.findall(content)): the non-overlapping matches, left to right
FindAll(pat, c) == FindAllFrom(pat, c, 1)

SubSeqOrEmpty(c, a, b) == IF a > b THEN <<>> ELSE SubSeq(c, a, b)

RECURSIVE SubFrom(_, _)
SubFrom(c, p) ==
    IF p > Len(c) THEN <<>>
    ELSE LET e == MatchEnd("logger_pattern", c, p)
             q == SkipSpace(c, p)
         IN  IF e = 0 THEN <<c[p]>> \o SubFrom(c, p + 1)
             ELSE SubSeqOrEmpty(c, p, q - 1) \o <<"/", "/", " ">>
                    \o SubSeq(c, q, e) \o SubFrom(c, e + 1)

\* logger_pattern.sub(r'\1// \2', content)
Sub(c) == SubFrom(c, 1)

----------------------------------------------------------------------------
(* The functions of the script; each loop runs over AGENT_FILES in order *)

RECURSIVE BackupFilesOnce(_, _)
\* backup_files() that keeps a backup it finds
BackupFilesOnce(i, d) ==
    IF i > NumFiles THEN d
    ELSE IF ~Exists(d, FilePath(i)) \/ Exists(d, BackupPath(i))
    THEN BackupFilesOnce(i + 1, d)
    ELSE BackupFilesOnce(i + 1, Copy2(d, FilePath(i), BackupPath(i)))

RECURSIVE BackupFilesFrom(_, _)
BackupFilesFrom(i, d) ==
    IF i > NumFiles THEN d
    ELSE IF ~Exists(d, FilePath(i)) THEN BackupFilesFrom(i + 1, d)
    ELSE BackupFilesFrom(i + 1, Copy2(d, FilePath(i), BackupPath(i)))

RECURSIVE RestoreFromBreak(_, _, _)
\* restore_from_backups() whose loop ends at the first missing backup
RestoreFromBreak(i, d, restored) ==
    IF i > NumFiles \/ ~Exists(d, BackupPath(i))
    THEN [disk |-> d, restored |-> restored]
    ELSE RestoreFromBreak(i + 1, Copy2(d, BackupPath(i), FilePath(i)), restored + 1)

RECURSIVE RestoreFrom(_, _, _)
RestoreFrom(i, d, restored) ==
    IF i > NumFiles THEN [disk |-> d, restored |-> restored]
    ELSE IF ~Exists(d, BackupPath(i)) THEN RestoreFrom(i + 1, d, restored)
    ELSE RestoreFrom(i + 1, Copy2(d, BackupPath(i), FilePath(i)), restored + 1)

\* restore_from_backups() that moves each backup over its file
RestoreByMove(d) ==
    LET r == RestoreFrom(1, d, 0)
        kept == {p \in DOMAIN r.disk : p[2] # BACKUP_SUFFIX}
    IN  [disk |-> [p \in kept |-> r.disk[p]], restored |-> r.restored]

\* restore_from_backups(): the file system it leaves and the count it returns
RestoreFromBackupsOf(d) == RestoreFrom(1, d, 0)

RECURSIVE DisableFromBreak(_, _, _)
\* disable_logging() whose loop ends at the first missing file
DisableFromBreak(i, d, acc) ==
    IF i > NumFiles \/ ~Exists(d, FilePath(i)) THEN [disk |-> d] @@ acc
    ELSE LET content == UniversalNewlines(d[FilePath(i)])
             matches_before == FindAll("logger_pattern", content)
             modified_content == Sub(content)
         IN  IF content # modified_content
             THEN DisableFromBreak(i + 1, WriteText(d, FilePath(i), modified_content),
                    [total_files |-> acc.total_files + 1,
                     total_lines |-> acc.total_lines + matches_before,
                     printed |-> acc.printed @@ (i :> matches_before)])
             ELSE DisableFromBreak(i + 1, d, acc)

RECURSIVE DisableFrom(_, _, _)
DisableFrom(i, d, acc) ==
    IF i > NumFiles THEN [disk |-> d] @@ acc
    ELSE IF ~Exists(d, FilePath(i)) THEN DisableFrom(i + 1, d, acc)
    ELSE LET content == ReadText(d, FilePath(i))
             matches_before == FindAll("logger_pattern", content)
             modified_content == Sub(content)
         IN  IF content # modified_content
             THEN DisableFrom(i + 1, WriteText(d, FilePath(i), modified_content),
                    [total_files |-> acc.total_files + 1,
                     total_lines |-> acc.total_lines + matches_before,
                     printed |-> acc.printed @@ (i :> matches_before)])
             ELSE DisableFrom(i + 1, d, acc)

\* disable_logging(): the file system it leaves, the totals it returns and
\* the per-file count it prints for each file it rewrote
DisableLoggingOf(d) ==
    DisableFrom(1, d, [total_files |-> 0, total_lines |-> 0, printed |-> <<>>])

\* the backups taken only once disable_logging() has rewritten the files
BackupFilesAfterDisable(d) == BackupFilesFrom(1, DisableLoggingOf(d).disk)

\* backup_files(): the file system it leaves
BackupFilesOf(d) == BackupFilesFrom(1, d)

RECURSIVE CountFrom(_, _)
CountFrom(i, d) ==
    IF i > NumFiles THEN 0
    ELSE IF ~Exists(d, FilePath(i)) THEN CountFrom(i + 1, d)
    ELSE FindAll("count_pattern", ReadText(d, FilePath(i))) + CountFrom(i + 1, d)

\* enable_logging(): restore, then count the Logger calls of the files
EnableLoggingOf(d) ==
    LET r == RestoreFromBackupsOf(d)
    IN  [disk |-> r.disk, restored |-> r.restored,
         total_lines |-> CountFrom(1, r.disk)]

\* the status line with >= for >
FileStatusAtLeast(enabled, disabled) ==
    IF enabled >= disabled THEN "ENABLED"
    ELSE IF disabled > 0 THEN "DISABLED" ELSE "NO LOGS"

\* the per-file status line of check_status()
FileStatus(enabled, disabled) ==
    IF enabled > disabled THEN "ENABLED"
    ELSE IF disabled > 0 THEN "DISABLED" ELSE "NO LOGS"

\* the closing line decided by which total is larger
OverallStatusByMajority(total_enabled, total_disabled) ==
    IF total_enabled > total_disabled THEN "ENABLED"
    ELSE IF total_disabled > 0 THEN "DISABLED"
    ELSE "NO LOGS FOUND"

\* the closing line that says DISABLED only when more is disabled than enabled
OverallStatusIfMoreDisabled(total_enabled, total_disabled) ==
    IF total_enabled > 0 /\ total_disabled = 0 THEN "ENABLED"
    ELSE IF total_disabled > total_enabled THEN "DISABLED"
    ELSE "NO LOGS FOUND"

\* the closing line of check_status()
OverallStatus(total_enabled, total_disabled) ==
    IF total_enabled > 0 /\ total_disabled = 0 THEN "ENABLED"
    ELSE IF total_disabled > 0 THEN "DISABLED"
    ELSE "NO LOGS FOUND"

RECURSIVE StatusFrom(_, _, _)
StatusFrom(i, d, acc) ==
    IF i > NumFiles THEN acc
    ELSE IF ~Exists(d, FilePath(i)) THEN StatusFrom(i + 1, d, acc)
    ELSE LET content == ReadText(d, FilePath(i))
             enabled == FindAll("enabled_pattern", content)
             disabled == FindAll("disabled_pattern", content)
         IN  StatusFrom(i + 1, d,
               [total_enabled |-> acc.total_enabled + enabled,
                total_disabled |-> acc.total_disabled + disabled,
                printed |-> acc.printed @@
                   (i :> [enabled |-> enabled, disabled |-> disabled,
                          status |-> FileStatus(enabled, disabled)])])

\* check_status(): what it prints
CheckStatusOf(d) ==
    LET t == StatusFrom(1, d, [total_enabled |-> 0, total_disabled |-> 0,
                               printed |-> <<>>])
    IN  t @@ [overall |-> OverallStatus(t.total_enabled, t.total_disabled)]

----------------------------------------------------------------------------
(* Initial file systems *)

Tokens == {"Logger.info(", " ", "/", ")", ";", "\n", "\r"}

RECURSIVE TokenStrings(_)
\* every token string of length at most n
TokenStrings(n) ==
    IF n = 0 THEN {<<>>}
    ELSE LET S == TokenStrings(n - 1)
         IN  S \cup {Append(s, t) : s \in {u \in S : Len(u) = n - 1}, t \in Tokens}

\* lines as they occur in the agent files, each with its line end
SampleLines ==
    { <<"Logger.info(", "x", ")", ";", "\n">>,                \* Logger.info(x);
      <<" ", " ", "Logger.entry(", "x", ")", "\n">>,          \* indented, no ';'
      <<"Logger.debug(", ")", ";", "\n">>,                    \* Logger.debug();
      <<"Logger.error(", "x", "\n">>,                         \* call continued below
      <<"/", "/", " ", "Logger.exit(", "x", ")", ";", "\n">>, \* commented out
      <<"x", " ", "Logger.info(", "x", ")", ";", "\n">>,      \* call inside a line
      <<" ", "Logger.warn(", "x", ")", ";", "\r", "\n">>,     \* CRLF line end
      <<"x", ";", "\n">>,                                     \* other code
      <<"\n">> }                                              \* blank line

RECURSIVE LineTexts(_)
\* every text of at most n sample lines
LineTexts(n) ==
    IF n = 0 THEN {<<>>}
    ELSE LET S == LineTexts(n - 1)
         IN  S \cup {s \o l : s \in S, l \in SampleLines}

\* a file with two active statements and one commented out
MixedContent ==
    <<"Logger.info(", "x", ")", ";", "\n",
      "/", "/", " ", "Logger.exit(", "x", ")", "\n",
      "Logger.warn(", "x", ")", ";", " ", "\n">>

\* the token strings that hold a Logger call: the others are texts that none
\* of the four patterns matches anywhere
CallStrings(n) == {s \in TokenStrings(n) : \E k \in 1 .. Len(s) : s[k] \in LoggerCalls}

RichContents ==
    CallStrings(MaxTokens) \cup LineTexts(MaxLines) \cup {MixedContent}

\* two statements disable comments out
ActiveContent ==
    <<"Logger.info(", "x", ")", ";", "\n",
      " ", "Logger.error(", "x", ")", "\n">>

\* one statement commented out and one call that logger_pattern does not match
DisabledContent ==
    <<"/", "/", " ", "Logger.warn(", "x", ")", ";", "\n",
      "Logger.debug(", ")", ";", "\n">>

FewContents == {ActiveContent, DisabledContent}

NoArgs == [status |-> FALSE, enable |-> FALSE, disable |-> FALSE]

NoOutput == [kind |-> "none"]

\* one tracked file with any of the rich contents, the others missing
InitRich ==
    \E c \in RichContents : disk = (FilePath(1) :> c)

\* every tracked file missing or holding one of a few contents
InitMany ==
    \E present \in SUBSET AGENT_FILES :
      \E content \in [present -> FewContents] :
        disk = [p \in {FilePath(i) : i \in present} |-> content[p[1]]]

\* every tracked file present, some of them with a backup left by an earlier
\* run that held ActiveContent
InitBackedUp ==
    \E backed \in SUBSET AGENT_FILES :
        disk = [p \in {FilePath(i) : i \in AGENT_FILES}
                        \cup {BackupPath(i) : i \in backed} |->
                  IF p[2] = BACKUP_SUFFIX THEN ActiveContent ELSE DisabledContent]

Init ==
    /\ InitRich \/ InitMany \/ InitBackedUp
    /\ pc = "idle"
    /\ args = NoArgs
    /\ out = NoOutput
    /\ hist = <<>>
    /\ original = disk

----------------------------------------------------------------------------
(* The runs of the script *)

\* the last two runs that reached --enable or --disable: each with its action,
\* the file system it started from, and the action of the run of that kind
\* before it ("none" for the first)
Remember(h, action, d) ==
    LET after == IF h = <<>> THEN "none" ELSE h[Len(h)].action
        h2 == Append(h, [action |-> action, before |-> d, after |-> after])
    IN  IF Len(h2) > 2 THEN Tail(h2) ELSE h2

Flags == [status : BOOLEAN, enable : BOOLEAN, disable : BOOLEAN]

\* main() without the return after check_status(): the run goes on to the
\* action the other flags ask for
StatusRunNoReturn(a) ==
    /\ pc = "idle"
    /\ a.status
    /\ args' = a
    /\ out' = [kind |-> "status"] @@ CheckStatusOf(disk)
    /\ disk' = IF a.enable /\ ~a.disable THEN EnableLoggingOf(disk).disk
               ELSE IF a.disable /\ ~a.enable
                    THEN DisableLoggingOf(BackupFilesOf(disk)).disk
               ELSE disk
    /\ UNCHANGED <<pc, hist, original>>

\* a status run that opens each file for update and writes back what it read
StatusRunRewrites(a) ==
    /\ pc = "idle"
    /\ a.status
    /\ args' = a
    /\ out' = [kind |-> "status"] @@ CheckStatusOf(disk)
    /\ disk' = [p \in DOMAIN disk |->
                  IF p[2] = BACKUP_SUFFIX THEN disk[p] ELSE UniversalNewlines(disk[p])]
    /\ UNCHANGED <<pc, hist, original>>

\* main() with --status: check_status() alone runs, whatever else is asked
StatusRun(a) ==
    /\ pc = "idle"
    /\ a.status
    /\ args' = a
    /\ out' = [kind |-> "status"] @@ CheckStatusOf(disk)
    /\ UNCHANGED <<disk, pc, hist, original>>

\* the error message without the return: the run goes on to enable_logging()
ConflictRunEnables(a) ==
    /\ pc = "idle"
    /\ ~a.status /\ a.enable /\ a.disable
    /\ args' = a
    /\ out' = [kind |-> "error"]
    /\ disk' = EnableLoggingOf(disk).disk
    /\ UNCHANGED <<pc, hist, original>>

\* main() with --enable and --disable: the error message, and return
ConflictRun(a) ==
    /\ pc = "idle"
    /\ ~a.status /\ a.enable /\ a.disable
    /\ args' = a
    /\ out' = [kind |-> "error"]
    /\ UNCHANGED <<disk, pc, hist, original>>

\* main() with --enable: enable_logging() and the summary
EnableRun(a) ==
    /\ pc = "idle"
    /\ ~a.status /\ a.enable /\ ~a.disable
    /\ args' = a
    /\ hist' = Remember(hist, "enable", disk)
    /\ LET r == EnableLoggingOf(disk)
       IN  /\ disk' = r.disk
           /\ out' = [kind |-> "enable", files |-> r.restored,
                      lines |-> r.total_lines]
    /\ UNCHANGED <<pc, original>>

\* main() with --disable, first half: backup_files()
DisableRunBackup(a) ==
    /\ pc = "idle"
    /\ ~a.status /\ ~a.enable /\ a.disable
    /\ args' = a
    /\ hist' = Remember(hist, "disable", disk)
    /\ disk' = BackupFilesOf(disk)
    /\ pc' = "disable_logging"
    /\ UNCHANGED <<out, original>>

\* main() with --disable, second half: disable_logging() and the summary
DisableLogging ==
    /\ pc = "disable_logging"
    /\ LET r == DisableLoggingOf(disk)
       IN  /\ disk' = r.disk
           /\ out' = [kind |-> "disable", files |-> r.total_files,
                      lines |-> r.total_lines, printed |-> r.printed]
    /\ pc' = "idle"
    /\ UNCHANGED <<args, hist, original>>

\* main() with no flag: the usage text
HelpRun(a) ==
    /\ pc = "idle"
    /\ ~a.status /\ ~a.enable /\ ~a.disable
    /\ args' = a
    /\ out' = [kind |-> "help"]
    /\ UNCHANGED <<disk, pc, hist, original>>

Next ==
    \/ \E a \in Flags : StatusRun(a)
    \/ \E a \in Flags : ConflictRun(a)
    \/ \E a \in Flags : EnableRun(a)
    \/ \E a \in Flags : DisableRunBackup(a)
    \/ DisableLogging
    \/ \E a \in Flags : HelpRun(a)

Spec == Init /\ [][Next]_vars

----------------------------------------------------------------------------
(* Runs in which a read, a write or a copy raises OSError.  No function of the
   script catches an exception: it leaves the loop, the function and main(),
   and the interpreter prints a traceback.  The model follows the script up
   to the first such run. *)

\* the file system with the files and backups from index k on hidden: what a
\* loop over AGENT_FILES has met when it reaches file k
Below(d, k) == [p \in {q \in DOMAIN d : q[1] < k} |-> d[p]]

\* the file systems a failed write of data to path p can leave: p as it was,
\* or p holding any leading part of data
FailedWrite(d, p, data) ==
    {d} \cup {WriteText(d, p, SubSeqOrEmpty(data, 1, n)) : n \in 0 .. Len(data)}

Traceback(phase, k) == [kind |-> "traceback", phase |-> phase, at |-> k]

\* check_status(): the read of file k fails; the lines of the files before
\* it are on the screen
StatusFails(a, k) ==
    /\ pc = "idle"
    /\ a.status
    /\ Exists(disk, FilePath(k))
    /\ args' = a
    /\ out' = Traceback("check_status", k)
                @@ [printed |-> CheckStatusOf(Below(disk, k)).printed]
    /\ pc' = "failed"
    /\ UNCHANGED <<disk, hist, original>>

\* restore_from_backups(): the copy of backup k fails
RestoreFails(a, k) ==
    /\ pc = "idle"
    /\ ~a.status /\ a.enable /\ ~a.disable
    /\ Exists(disk, BackupPath(k))
    /\ args' = a
    /\ hist' = Remember(hist, "enable", disk)
    /\ disk' \in FailedWrite(RestoreFromBackupsOf(Below(disk, k)).disk @@ disk,
                             FilePath(k), disk[BackupPath(k)])
    /\ out' = Traceback("restore_from_backups", k)
    /\ pc' = "failed"
    /\ UNCHANGED original

\* enable_logging(): the files are restored, then the read of file k fails
CountFails(a, k) ==
    /\ pc = "idle"
    /\ ~a.status /\ a.enable /\ ~a.disable
    /\ LET r == RestoreFromBackupsOf(disk)
       IN  /\ Exists(r.disk, FilePath(k))
           /\ disk' = r.disk
    /\ args' = a
    /\ hist' = Remember(hist, "enable", disk)
    /\ out' = Traceback("enable_logging", k)
    /\ pc' = "failed"
    /\ UNCHANGED original

\* backup_files(): the copy of file k fails; disable_logging() is not reached
BackupFails(a, k) ==
    /\ pc = "idle"
    /\ ~a.status /\ ~a.enable /\ a.disable
    /\ Exists(disk, FilePath(k))
    /\ args' = a
    /\ hist' = Remember(hist, "disable", disk)
    /\ disk' \in FailedWrite(BackupFilesOf(Below(disk, k)) @@ disk,
                             BackupPath(k), disk[FilePath(k)])
    /\ out' = Traceback("backup_files", k)
    /\ pc' = "failed"
    /\ UNCHANGED original

\* a read failure that is caught: the read is tried again, the loop goes on
\* over the later files, and the run fails at its end
DisableReadRetried(k) ==
    /\ pc = "disable_logging"
    /\ Exists(disk, FilePath(k))
    /\ disk' = DisableLoggingOf(disk).disk
    /\ out' = Traceback("disable_logging", k)
    /\ pc' = "failed"
    /\ UNCHANGED <<args, hist, original>>

\* disable_logging(): the read of file k fails
DisableReadFails(k) ==
    /\ pc = "disable_logging"
    /\ Exists(disk, FilePath(k))
    /\ disk' = DisableLoggingOf(Below(disk, k)).disk @@ disk
    /\ out' = Traceback("disable_logging", k)
    /\ pc' = "failed"
    /\ UNCHANGED <<args, hist, original>>

\* disable_logging(): the write of the rewritten file k fails
DisableWriteFails(k) ==
    /\ pc = "disable_logging"
    /\ Exists(disk, FilePath(k))
    /\ LET content == ReadText(disk, FilePath(k))
           modified_content == Sub(content)
       IN  /\ content # modified_content
           /\ disk' \in FailedWrite(DisableLoggingOf(Below(disk, k)).disk @@ disk,
                                    FilePath(k), modified_content)
    /\ out' = Traceback("disable_logging", k)
    /\ pc' = "failed"
    /\ UNCHANGED <<args, hist, original>>

InitIO ==
    /\ InitMany \/ InitBackedUp
    /\ pc = "idle"
    /\ args = NoArgs
    /\ out = NoOutput
    /\ hist = <<>>
    /\ original = disk

NextIO ==
    \/ Next
    \/ \E a \in Flags, k \in AGENT_FILES : StatusFails(a, k)
    \/ \E a \in Flags, k \in AGENT_FILES : RestoreFails(a, k)
    \/ \E a \in Flags, k \in AGENT_FILES : CountFails(a, k)
    \/ \E a \in Flags, k \in AGENT_FILES : BackupFails(a, k)
    \/ \E k \in AGENT_FILES : DisableReadFails(k)
    \/ \E k \in AGENT_FILES : DisableWriteFails(k)

SpecIO == InitIO /\ [][NextIO]_vars

----------------------------------------------------------------------------
(* Vocabulary of the properties *)

Present(d) == {i \in AGENT_FILES : Exists(d, FilePath(i))}

BackedUp(d) == {i \in AGENT_FILES : Exists(d, BackupPath(i))}

\* the latest run that reached --enable or --disable
Last == hist[Len(hist)]

\* a run of the given kind has just ended, and its output is on the screen
Ended(kind) == pc = "idle" /\ out.kind = kind

\* the counts check_status() takes of a file's bytes
Active(bytes) == FindAll("enabled_pattern", UniversalNewlines(bytes))

Disabled(bytes) == FindAll("disabled_pattern", UniversalNewlines(bytes))

\* the statements logger_pattern finds in a file's bytes
Matched(bytes) == FindAll("logger_pattern", UniversalNewlines(bytes))

\* --disable then --enable, with no other --disable or --enable in between
DisableThenEnable ==
    /\ pc = "idle"
    /\ Len(hist) = 2
    /\ hist[1].action = "disable"
    /\ hist[2].action = "enable"

\* --disable then --disable, with no --enable in between, the second just ended
DisableTwice ==
    /\ Ended("disable")
    /\ Len(hist) = 2
    /\ hist[1].action = "disable"
    /\ hist[2].action = "disable"

----------------------------------------------------------------------------
(* C1 *)

\* C1: round trip.  After --disable followed by --enable, every tracked file
\* that existed and held no commented-out statement before the disable has
\* exactly the bytes it had before the disable.
C1_RoundTrip ==
    DisableThenEnable =>
        \A i \in Present(hist[1].before) :
            Disabled(hist[1].before[FilePath(i)]) = 0
                => /\ Exists(disk, FilePath(i))
                   /\ disk[FilePath(i)] = hist[1].before[FilePath(i)]

\* a file of active statements was rewritten by the disable and is back
C1_Witness ==
    /\ DisableThenEnable
    /\ \E i \in Present(hist[1].before) :
          /\ Disabled(hist[1].before[FilePath(i)]) = 0
          /\ Matched(hist[1].before[FilePath(i)]) > 0
          /\ hist[2].before[FilePath(i)] # hist[1].before[FilePath(i)]
          /\ disk[FilePath(i)] = hist[1].before[FilePath(i)]

(* C2 *)

\* C2: disable is idempotent.  The second of two disable runs in a row
\* reports 0 files and 0 statements and leaves every tracked file as the
\* first run left it.
C2_DisableIdempotent ==
    DisableTwice =>
        /\ out.files = 0
        /\ out.lines = 0
        /\ Present(disk) = Present(hist[2].before)
        /\ \A i \in Present(disk) :
              disk[FilePath(i)] = hist[2].before[FilePath(i)]

\* the first of the two runs did comment out a statement
C2_Witness ==
    /\ DisableTwice
    /\ \E i \in Present(disk) :
          /\ hist[1].before[FilePath(i)] # hist[2].before[FilePath(i)]
          /\ Matched(hist[1].before[FilePath(i)]) > 0
    /\ out.files = 0

(* C3 *)

\* --disable, --disable, --enable with no other --enable in between
DisableDisableEnable ==
    /\ DisableThenEnable
    /\ hist[1].after = "disable"

\* C3: the backup is overwritten by a repeated disable.  After disable,
\* disable, enable every tracked file and its backup hold what the file held
\* when the second disable started (the disabled text), and where the first
\* disable had changed the file, the text saved by the first disable is in
\* neither of them any more.
C3_BackupOverwritten ==
    DisableDisableEnable =>
        \A i \in Present(hist[1].before) :
            LET disabled == hist[1].before[FilePath(i)]
                snapshot == hist[1].before[BackupPath(i)]
            IN  /\ disk[FilePath(i)] = disabled
                /\ disk[BackupPath(i)] = disabled
                /\ snapshot # disabled =>
                     disk[FilePath(i)] # snapshot /\ disk[BackupPath(i)] # snapshot

\* the first disable did comment a statement out, and its backup is gone
C3_Witness ==
    /\ DisableDisableEnable
    /\ \E i \in Present(hist[1].before) :
          /\ hist[1].before[BackupPath(i)] # hist[1].before[FilePath(i)]
          /\ Matched(hist[1].before[BackupPath(i)]) > 0
          /\ Active(disk[FilePath(i)]) = 0
          /\ disk[BackupPath(i)] = disk[FilePath(i)]

(* C4 *)

RECURSIVE ActiveUpTo(_, _)
\* the active statements, as check_status() counts them, of the first n files
ActiveUpTo(n, d) ==
    IF n = 0 THEN 0
    ELSE ActiveUpTo(n - 1, d)
           + (IF Exists(d, FilePath(n)) THEN Active(d[FilePath(n)]) ELSE 0)

\* every Logger call of every tracked file starts its line, or follows the
\* comment marker that starts its line: there is no other kind of call that
\* could be taken for active or not
OnlyStatements(d) ==
    \A i \in Present(d) :
        FindAll("count_pattern", UniversalNewlines(d[FilePath(i)]))
            = Active(d[FilePath(i)]) + Disabled(d[FilePath(i)])

\* C4: the statement count --enable reports is the number of active
\* statements of the tracked files after the restore; commented-out
\* statements are not counted, also in files left disabled for want of a
\* backup.  (Stated for files that hold Logger calls as statements only.)
C4_EnableCountsActive ==
    (Ended("enable") /\ OnlyStatements(disk))
        => out.lines = ActiveUpTo(NumFiles, disk)

(* C5 *)

\* the number of statements --disable printed for file i
Reported(i) == IF i \in DOMAIN out.printed THEN out.printed[i] ELSE 0

\* C5: disable and status agree on what an active statement is.  Right after
\* a disable run every tracked file has 0 active statements by status's count,
\* and its disabled count has grown by the number disable reported for it.
C5_DisableMatchesStatus ==
    Ended("disable") =>
        \A i \in Present(disk) :
            /\ Active(disk[FilePath(i)]) = 0
            /\ Disabled(disk[FilePath(i)])
                 = Disabled(Last.before[FilePath(i)]) + Reported(i)

(* C6 *)

\* C6: backup before mutation.  When backup_files() has run and
\* disable_logging() has not, every tracked file that exists is unchanged and
\* has a backup equal to it; when the run has ended, the backup of every such
\* file holds what the file held when the run started, whether or not a
\* statement of it matched.
C6_BackupBeforeMutation ==
    /\ pc = "disable_logging" =>
          \A i \in Present(Last.before) :
              /\ disk[FilePath(i)] = Last.before[FilePath(i)]
              /\ Exists(disk, BackupPath(i))
              /\ disk[BackupPath(i)] = Last.before[FilePath(i)]
    /\ Ended("disable") =>
          \A i \in Present(Last.before) :
              /\ Exists(disk, BackupPath(i))
              /\ disk[BackupPath(i)] = Last.before[FilePath(i)]

\* a run that rewrote one file and left another, which matched nothing, alone
C6_Witness ==
    /\ Ended("disable")
    /\ \E i, j \in Present(Last.before) :
          /\ disk[FilePath(i)] # Last.before[FilePath(i)]
          /\ disk[BackupPath(i)] = Last.before[FilePath(i)]
          /\ Matched(Last.before[FilePath(j)]) = 0
          /\ disk[BackupPath(j)] = Last.before[FilePath(j)]

(* C7 *)

\* C7: status is read-only.  A status run changes no tracked file and no
\* backup, and a status run that follows a status run prints the same
\* per-file and total counts and classifications.
C7_StatusReadOnly ==
    [][(pc = "idle" /\ args'.status /\ out'.kind = "status")
          => /\ disk' = disk
             /\ out.kind = "status" => out' = out]_vars

\* a status run over files that a disable has rewritten
C7_Witness ==
    /\ Ended("status")
    /\ args.status
    /\ hist # <<>>
    /\ out.total_disabled > 0
    /\ \E i \in Present(disk) : disk[FilePath(i)] # Last.before[FilePath(i)]

(* C8 *)

RECURSIVE MatchedUpTo(_, _)
\* the statements logger_pattern finds in the first n files
MatchedUpTo(n, d) ==
    IF n = 0 THEN 0
    ELSE MatchedUpTo(n - 1, d)
           + (IF Exists(d, FilePath(n)) THEN Matched(d[FilePath(n)]) ELSE 0)

\* C8: a missing file is skipped by disable.  It stays missing, gets no
\* backup and no report, and adds nothing to either total; every other
\* tracked file is backed up and has its matching statements commented out.
C8_MissingFileSkipped ==
    Ended("disable") =>
        LET b == Last.before
        IN  /\ \A i \in AGENT_FILES \ Present(b) :
                  /\ ~Exists(disk, FilePath(i))
                  /\ ~Exists(disk, BackupPath(i))
                  /\ i \notin DOMAIN out.printed
            /\ out.files = Cardinality({i \in Present(b) : Matched(b[FilePath(i)]) > 0})
            /\ out.lines = MatchedUpTo(NumFiles, b)
            /\ \A i \in Present(b) :
                  /\ disk[BackupPath(i)] = b[FilePath(i)]
                  /\ Matched(disk[FilePath(i)]) = 0
                  /\ Disabled(disk[FilePath(i)])
                       = Disabled(b[FilePath(i)]) + Matched(b[FilePath(i)])

\* a missing file between two files that the run disabled
C8_Witness ==
    /\ Ended("disable")
    /\ \E i, j, k \in AGENT_FILES :
          /\ i < j /\ j < k
          /\ ~Exists(Last.before, FilePath(j))
          /\ ~Exists(disk, BackupPath(j))
          /\ i \in DOMAIN out.printed /\ k \in DOMAIN out.printed
          /\ Exists(disk, BackupPath(i)) /\ Exists(disk, BackupPath(k))
          /\ out.files = 2

(* C9 *)

\* C9: a missing backup is skipped by enable.  A tracked file without a
\* backup is left as it is, every file with a backup gets the backup's
\* bytes, and the count reported is the number of backups that existed.
C9_MissingBackupSkipped ==
    Ended("enable") =>
        LET b == Last.before
        IN  /\ \A i \in AGENT_FILES \ BackedUp(b) :
                  /\ ~Exists(disk, BackupPath(i))
                  /\ Exists(disk, FilePath(i)) <=> Exists(b, FilePath(i))
                  /\ Exists(b, FilePath(i)) => disk[FilePath(i)] = b[FilePath(i)]
            /\ \A i \in BackedUp(b) :
                  /\ Exists(disk, FilePath(i))
                  /\ disk[FilePath(i)] = b[BackupPath(i)]
            /\ out.files = Cardinality(BackedUp(b))

\* a file without a backup between two files that the run restored
C9_Witness ==
    /\ Ended("enable")
    /\ \E i, j, k \in AGENT_FILES :
          /\ i < j /\ j < k
          /\ Exists(Last.before, FilePath(j))
          /\ ~Exists(Last.before, BackupPath(j))
          /\ disk[FilePath(j)] = Last.before[FilePath(j)]
          /\ {i, k} \subseteq BackedUp(Last.before)
          /\ Last.before[FilePath(i)] # disk[FilePath(i)]
          /\ Last.before[FilePath(k)] # disk[FilePath(k)]
          /\ out.files = 2

(* C10 *)

\* C10: the per-file classification.  With a and d the active and disabled
\* counts of a file, status prints ENABLED exactly when a > d, DISABLED exactly
\* when d > 0 and a <= d, NO LOGS exactly when a = 0 and d = 0, and always one
\* of the three.
C10_FileClassification ==
    Ended("status") =>
        /\ DOMAIN out.printed = Present(disk)
        /\ \A i \in Present(disk) :
              LET a == Active(disk[FilePath(i)])
                  d == Disabled(disk[FilePath(i)])
                  st == out.printed[i].status
              IN  /\ out.printed[i].enabled = a
                  /\ out.printed[i].disabled = d
                  /\ st \in {"ENABLED", "DISABLED", "NO LOGS"}
                  /\ st = "ENABLED" <=> a > d
                  /\ st = "DISABLED" <=> (d > 0 /\ a <= d)
                  /\ st = "NO LOGS" <=> (a = 0 /\ d = 0)

\* a file with as many active as disabled statements, printed as DISABLED,
\* beside a file printed as ENABLED
C10_Witness ==
    /\ Ended("status")
    /\ \E i \in Present(disk) :
          /\ out.printed[i].enabled = out.printed[i].disabled
          /\ out.printed[i].disabled > 0
          /\ out.printed[i].status = "DISABLED"
    /\ \E i \in Present(disk) :
          /\ out.printed[i].enabled > out.printed[i].disabled
          /\ out.printed[i].status = "ENABLED"

(* C11 *)

RECURSIVE DisabledUpTo(_, _)
\* the commented-out statements, as check_status() counts them, of the first
\* n files
DisabledUpTo(n, d) ==
    IF n = 0 THEN 0
    ELSE DisabledUpTo(n - 1, d)
           + (IF Exists(d, FilePath(n)) THEN Disabled(d[FilePath(n)]) ELSE 0)

\* C11: the overall classification.  With A and D the active and disabled
\* counts summed over the tracked files that exist (a missing file adds
\* nothing), status ends with ENABLED exactly when A > 0 and D = 0, with
\* DISABLED exactly when D > 0, and with "no logging statements found"
\* exactly when A = 0 and D = 0.
C11_OverallClassification ==
    Ended("status") =>
        LET A == ActiveUpTo(NumFiles, disk)
            D == DisabledUpTo(NumFiles, disk)
        IN  /\ out.total_enabled = A
            /\ out.total_disabled = D
            /\ out.overall \in {"ENABLED", "DISABLED", "NO LOGS FOUND"}
            /\ out.overall = "ENABLED" <=> (A > 0 /\ D = 0)
            /\ out.overall = "DISABLED" <=> D > 0
            /\ out.overall = "NO LOGS FOUND" <=> (A = 0 /\ D = 0)

\* more active than disabled statements in all, a file missing, and DISABLED
C11_Witness ==
    /\ Ended("status")
    /\ Present(disk) # AGENT_FILES
    /\ out.total_enabled > out.total_disabled
    /\ out.total_disabled > 0
    /\ out.overall = "DISABLED"

(* C12 *)

RECURSIVE SplitLines(_)
\* the lines of a file's bytes: the stretches between its "\n"
SplitLines(b) ==
    IF b = <<>> THEN << <<>> >>
    ELSE LET rest == SplitLines(Tail(b))
         IN  IF Head(b) = "\n" THEN << <<>> >> \o rest
             ELSE << <<Head(b)>> \o Head(rest) >> \o Tail(rest)

RECURSIVE Indent(_)
\* the leading blanks of a line
Indent(l) ==
    IF l # <<>> /\ Head(l) = " " THEN <<" ">> \o Indent(Tail(l)) ELSE <<>>

\* what follows the leading blanks of a line
AfterIndent(l) == SubSeqOrEmpty(l, Len(Indent(l)) + 1, Len(l))

\* a line whose first token after the leading blanks is a Logger call
StartsWithCall(l) == AfterIndent(l) # <<>> /\ Head(AfterIndent(l)) \in LoggerCalls

\* line new is line old with "// " put between its leading blanks and its call
MarkerInserted(old, new) ==
    /\ StartsWithCall(old)
    /\ new = Indent(old) \o <<"/", "/", " ">> \o AfterIndent(old)

\* file bytes new are file bytes old but for inserted markers
OnlyMarkersInserted(old, new) ==
    LET o == SplitLines(old)
        n == SplitLines(new)
    IN  /\ Len(n) = Len(o)
        /\ \A k \in 1 .. Len(o) :
              /\ n[k] = o[k] \/ MarkerInserted(o[k], n[k])
              /\ ~StartsWithCall(o[k]) => n[k] = o[k]

\* the lines of two files have the same leading blanks, line by line
SameIndents(old, new) ==
    LET o == SplitLines(old)
        n == SplitLines(new)
    IN  /\ Len(n) = Len(o)
        /\ \A k \in 1 .. Len(o) : Indent(n[k]) = Indent(o[k])

\* C12: disable changes a file only by inserting the comment marker.  After
\* a disable run every tracked file has the lines it had, in their order;
\* a line that is no active statement is as it was, and a rewritten line has
\* its leading blanks, then "// ", then the call as it was.  After an enable
\* that follows, every line has the leading blanks it had before the disable.
C12_OnlyMarkerInserted ==
    /\ Ended("disable") =>
          \A i \in Present(disk) :
              OnlyMarkersInserted(Last.before[FilePath(i)], disk[FilePath(i)])
    /\ DisableThenEnable =>
          \A i \in Present(hist[1].before) :
              SameIndents(hist[1].before[FilePath(i)], disk[FilePath(i)])

\* a file's bytes hold no carriage return
NoCarriageReturn(b) == \A k \in 1 .. Len(b) : b[k] # "\r"

\* the same, for the files that hold no carriage return
C12_OnlyMarkerInsertedLF ==
    /\ Ended("disable") =>
          \A i \in Present(disk) :
              NoCarriageReturn(Last.before[FilePath(i)]) =>
                  OnlyMarkersInserted(Last.before[FilePath(i)], disk[FilePath(i)])
    /\ DisableThenEnable =>
          \A i \in Present(hist[1].before) :
              SameIndents(hist[1].before[FilePath(i)], disk[FilePath(i)])

(* C13 *)

\* a step that is a whole run asking for both --enable and --disable
ConflictingStep == pc = "idle" /\ args'.enable /\ args'.disable

C14_BackupsKept ==
    [][/\ BackedUp(disk) \subseteq BackedUp(disk')
       /\ (pc = "idle" /\ pc' = "idle" /\ out'.kind = "enable") =>
             \A i \in BackedUp(disk) : disk'[BackupPath(i)] = disk[BackupPath(i)]]_vars

\* an enable run has restored a file from its backup, and the backup is there
C14_Witness ==
    /\ Ended("enable")
    /\ out.files > 0
    /\ \E i \in BackedUp(disk) :
          /\ disk[FilePath(i)] = disk[BackupPath(i)]
          /\ Last.before[FilePath(i)] # disk[FilePath(i)]

(* C15 *)

\* the file system the failing phase started from: the counting loop of
\* enable_logging() starts from what restore_from_backups() left
PhaseStart(d, phase) ==
    IF phase = "enable_logging" THEN RestoreFromBackupsOf(d).disk ELSE d

\* file i and its backup are in d2 as they are in d1, there or missing
Untouched(d1, d2, i) ==
    \A p \in {FilePath(i), BackupPath(i)} :
        /\ Exists(d2, p) <=> Exists(d1, p)
        /\ Exists(d1, p) => d2[p] = d1[p]

\* C15: an I/O failure is fatal.  The step in which a read, write or copy of
\* file k fails ends the run with a traceback and no summary; every file
\* after k in AGENT_FILES, and its backup, is as the failing phase found it;
\* a failing status has printed no line for k or a later file; and the script
\* takes no further step in that run.
C15_FailureIsFatal ==
    [][/\ pc # "failed"
       /\ pc' = "failed" =>
             /\ out'.kind = "traceback"
             /\ \A i \in AGENT_FILES :
                   i > out'.at => Untouched(PhaseStart(disk, out'.phase), disk', i)
             /\ out'.phase = "check_status" =>
                   /\ disk' = disk
                   /\ DOMAIN out'.printed \subseteq 1 .. out'.at - 1]_vars

\* disable_logging() has rewritten a file, failed at the next, and left a
\* later file with its active statements
C15_Witness ==
    /\ pc = "failed"
    /\ out.phase = "disable_logging"
    /\ \E i, j \in Present(disk) :
          /\ i < out.at /\ out.at < j
          /\ disk[FilePath(i)] # Last.before[FilePath(i)]
          /\ Matched(disk[FilePath(j)]) > 0

(* C16 *)

\* the disabled form of a file's bytes: what disable_logging() writes, or
\* leaves, for them
DisabledForm(bytes) ==
    LET content == UniversalNewlines(bytes)
    IN  IF Sub(content) = content THEN bytes ELSE Sub(content)

\* C16: the two-value invariant.  When the script starts with no backup on
\* disk, then after any runs every tracked file that exists holds the bytes
\* it started with or their disabled form, and so does every backup.
C16_TwoValues ==
    BackedUp(original) = {} =>
        /\ Present(disk) = Present(original)
        /\ BackedUp(disk) \subseteq Present(original)
        /\ \A i \in Present(disk) :
              disk[FilePath(i)] \in {original[FilePath(i)],
                                     DisabledForm(original[FilePath(i)])}
        /\ \A i \in BackedUp(disk) :
              disk[BackupPath(i)] \in {original[FilePath(i)],
                                       DisabledForm(original[FilePath(i)])}

\* after --disable, --disable, --enable a file and its backup both hold the
\* disabled form, which is not what the file started with; another file is
\* back to its first bytes
C16_Witness ==
    /\ BackedUp(original) = {}
    /\ Ended("enable")
    /\ \E i \in BackedUp(disk) :
          /\ disk[FilePath(i)] = DisabledForm(original[FilePath(i)])
          /\ disk[BackupPath(i)] = DisabledForm(original[FilePath(i)])
          /\ disk[FilePath(i)] # original[FilePath(i)]

(* C17 *)

\* the backups of d2 are those of d1, with the same bytes
SameBackups(d1, d2) ==
    /\ BackedUp(d2) = BackedUp(d1)
    /\ \A i \in BackedUp(d1) : d2[BackupPath(i)] = d1[BackupPath(i)]

\* C17: at most one action per run, status first.  A run asked for status,
\* whatever else it is asked for, prints the status report and changes no
\* file and no backup.  A step that changes the file system belongs to a run
\* asked for exactly one of enable and disable and not for status, and in an
\* enable run it takes no backup.
C17_StatusAlone ==
    [][/\ (pc = "idle" /\ args'.status) =>
             /\ disk' = disk
             /\ pc' = "idle"
             /\ out'.kind = "status"
       /\ disk' # disk =>
             /\ ~args'.status
             /\ args'.enable # args'.disable
             /\ args'.enable => SameBackups(disk, disk')]_vars

\* a status report is on the screen for a run that also asked for disable,
\* with a statement on disk that a disable would have commented out
C17_Witness ==
    /\ Ended("status")
    /\ args.status /\ args.disable /\ ~args.enable
    /\ \E i \in Present(disk) : Matched(disk[FilePath(i)]) > 0

(* C18 *)

\* C18: the status classifications agree.  In a status report whose closing
\* line says ENABLED every file listed is ENABLED or NO LOGS, and in a report
\* that lists some file as DISABLED the closing line says DISABLED.
C18_ClassificationsAgree ==
    Ended("status") =>
        /\ out.overall = "ENABLED" =>
              \A i \in DOMAIN out.printed :
                  out.printed[i].status \in {"ENABLED", "NO LOGS"}
        /\ (\E i \in DOMAIN out.printed : out.printed[i].status = "DISABLED")
              => out.overall = "DISABLED"

\* a report with a DISABLED file beside an ENABLED one, closing with
\* DISABLED although the enabled statements are no fewer
C18_Witness ==
    /\ Ended("status")
    /\ \E i, j \in DOMAIN out.printed :
          /\ out.printed[i].status = "DISABLED"
          /\ out.printed[j].status = "ENABLED"
    /\ out.total_enabled >= out.total_disabled
    /\ out.overall = "DISABLED"

====
